---- MODULE Spec2Model ----
(***************************************************************************)
(* Model of nclink_client/nclink_model.py: the NC-Link node tree.          *)
(*                                                                         *)
(* The heap of node objects is the sequence `nodes`; a reference to a node *)
(* is its index, None is 0.  Python strings are TLA+ strings, '' is "",    *)
(* and string concatenation (f-strings, +) is \o.  A dict keyed by id is a *)
(* function whose DOMAIN is the set of keys; the node dictionary, whose    *)
(* iteration order matters, is a sequence of <<id, node>> pairs.           *)
(* `last` records the call that was made last and what it returned.        *)
(***************************************************************************)
EXTENDS Integers, Sequences, FiniteSets, TLC

VARIABLES nodes, last

vars == <<nodes, last>>

None == 0

MS_IN_DAY == 24 * 3600 * 1000

\* NclinkNodeType
InvalidNode == "InvalidNode"
RootNode == "RootNode"
DeviceNode == "DeviceNode"
ConfigNode == "ConfigNode"
DataItemNode == "DataItemNode"
ComponentNode == "ComponentNode"
SampleChannelNode == "SampleChannelNode"

\* NcLinkValueType.VT_Unknown, the value type a Config is constructed with
VT_Unknown == "VT_Unknown"

EmptyDict == <<>>

-----------------------------------------------------------------------------
(* Constructors *)

BaseInit(id_, type_, name, node_type) ==
    [id |-> id_, type |-> type_, node_type |-> node_type, parent |-> None,
     name |-> name, path |-> "", description |-> ""]

ConfigInit(id_, type_, name) ==
    BaseInit(id_, type_, name, ConfigNode) @@
    [value_type |-> VT_Unknown, int_value |-> 0, str_value |-> "",
     data_type |-> "", settable |-> FALSE]

DataItemInit(id_, type_, name) ==
    BaseInit(id_, type_, name, DataItemNode) @@
    [number |-> "", data_type |-> "", settable |-> FALSE]

SampleChannelInit(id_, type_, name) ==
    BaseInit(id_, type_, name, SampleChannelNode) @@
    [ids |-> <<>>, sample_point_count |-> 0, sample_points |-> EmptyDict,
     sample_interval |-> 0, upload_interval |-> 0]

ComponentInit(id_, type_, name) ==
    BaseInit(id_, type_, name, ComponentNode) @@
    [config_nodes |-> EmptyDict, data_item_nodes |-> EmptyDict,
     component_nodes |-> EmptyDict, number |-> ""]

DeviceInit(id_, type_, name, version) ==
    BaseInit(id_, type_, name, DeviceNode) @@
    [version |-> version, dev_guid |-> "",
     sample_channel_nodes |-> EmptyDict, config_nodes |-> EmptyDict,
     data_item_nodes |-> EmptyDict, component_nodes |-> EmptyDict,
     node_dictionary |-> <<>>, id_to_path_map |-> EmptyDict,
     path_to_id_map |-> EmptyDict]

Construct(kind, id_, type_, name, version) ==
    CASE kind = ConfigNode -> ConfigInit(id_, type_, name)
      [] kind = DataItemNode -> DataItemInit(id_, type_, name)
      [] kind = SampleChannelNode -> SampleChannelInit(id_, type_, name)
      [] kind = ComponentNode -> ComponentInit(id_, type_, name)
      [] kind = DeviceNode -> DeviceInit(id_, type_, name, version)

Refs == 1..Len(nodes)

NodeKinds == {DeviceNode, ConfigNode, DataItemNode, ComponentNode, SampleChannelNode}

\* The call recorded in `last`: the method, the object it was called on, a
\* node argument, a string argument, an integer argument, the boolean it
\* returned and the list it returned.
Call(op, self, node, val, num, ret, out) ==
    [op |-> op, self |-> self, node |-> node, val |-> val, num |-> num,
     ret |-> ret, out |-> out]

NoCall == Call("none", None, None, "", 0, FALSE, <<>>)

-----------------------------------------------------------------------------
(* Path derivation *)

\* f'{parent.path}/{type}' and f'{parent.path}/{type}@{number}'
PlainPath(p, n) == nodes[p].path \o "/" \o nodes[n].type

NumberedPath(p, n) == nodes[p].path \o "/" \o nodes[n].type \o "@" \o nodes[n].number

\* The path the parent setter of a Config or a SampleChannel leaves in n.
UnnumberedSetterPath(n, val) ==
    IF val # None THEN PlainPath(val, n) ELSE nodes[n].path

\* NumberedSetterPath with the number left out of the path.
NumberedSetterPath_WithoutNumber(n, val) ==
    IF val # None /\ nodes[n].type # ""
    THEN PlainPath(val, n)
    ELSE nodes[n].path

\* The path the parent setter of a DataItem or a Component leaves in n.
NumberedSetterPath(n, val) ==
    IF val # None /\ nodes[n].type # ""
    THEN IF nodes[n].number # ""
         THEN NumberedPath(val, n)
         ELSE PlainPath(val, n)
    ELSE nodes[n].path

ParentSetterPath(n, val) ==
    IF nodes[n].node_type \in {ConfigNode, SampleChannelNode}
    THEN UnnumberedSetterPath(n, val)
    ELSE NumberedSetterPath(n, val)

\* 'NC_LINK_ROOT/' + val
DevicePath(val) == "NC_LINK_ROOT/" \o val

-----------------------------------------------------------------------------
(* validate() *)

BaseValidate(n) ==
    IF nodes[n].id # "" /\ nodes[n].type # "" /\ nodes[n].name # ""
    THEN TRUE
    ELSE FALSE

\* ParentIsDeviceOrComponent without the test of the parent's class.
ParentIsDeviceOrComponent_AnyClass(n) ==
    nodes[n].parent # None

\* The parent test of NclinkConfigNode.validate
ParentIsDeviceOrComponent(n) ==
    /\ nodes[n].parent # None
    /\ \/ nodes[nodes[n].parent].node_type = DeviceNode
       \/ nodes[nodes[n].parent].node_type = ComponentNode

ConfigValidate(n) ==
    IF ~(nodes[n].path # "" /\ BaseValidate(n))
    THEN FALSE
    ELSE IF ParentIsDeviceOrComponent(n) THEN TRUE ELSE FALSE

DataItemValidate(n) ==
    IF nodes[n].parent # None /\ nodes[n].path # "" /\ BaseValidate(n)
    THEN TRUE
    ELSE FALSE

\* IntervalsValid with a day itself out of range.
IntervalsValid_DayExcluded(si, ui) ==
    /\ 0 < si /\ si < MS_IN_DAY
    /\ 0 < ui /\ ui < MS_IN_DAY
    /\ si <= ui

\* The interval test of NclinkSampleChannelNode.validate
IntervalsValid(si, ui) ==
    /\ 0 < si /\ si <= MS_IN_DAY
    /\ 0 < ui /\ ui <= MS_IN_DAY
    /\ si <= ui

SampleChannelValidate(n) ==
    IF ~(nodes[n].parent # None /\ nodes[n].path # "" /\ BaseValidate(n))
    THEN FALSE
    ELSE IntervalsValid(nodes[n].sample_interval, nodes[n].upload_interval)

ComponentValidate(n) ==
    IF nodes[n].parent # None /\ nodes[n].path # "" /\ BaseValidate(n)
    THEN TRUE
    ELSE FALSE

DeviceValidate(n) ==
    IF nodes[n].version # "" /\ nodes[n].path # "" /\ BaseValidate(n)
    THEN TRUE
    ELSE FALSE

\* n.validate(), dispatched on the class of n
validate(n) ==
    CASE nodes[n].node_type = ConfigNode -> ConfigValidate(n)
      [] nodes[n].node_type = DataItemNode -> DataItemValidate(n)
      [] nodes[n].node_type = SampleChannelNode -> SampleChannelValidate(n)
      [] nodes[n].node_type = ComponentNode -> ComponentValidate(n)
      [] nodes[n].node_type = DeviceNode -> DeviceValidate(n)

-----------------------------------------------------------------------------
(* dicts and lists *)

Range(s) == {s[i] : i \in DOMAIN s}

\* d[k] = v on a dict keyed by id
DictSet(d, k, v) == (k :> v) @@ d

\* node_dictionary[key] = n: a key already present keeps its place in the
\* iteration order, a new key goes to the end.
OrderedDictSet(dict, key, n) ==
    IF \E i \in DOMAIN dict : dict[i][1] = key
    THEN [i \in DOMAIN dict |-> IF dict[i][1] = key THEN <<key, n>> ELSE dict[i]]
    ELSE Append(dict, <<key, n>>)

\* The values of the node dictionary in iteration order.
DictValues(dict) == [i \in DOMAIN dict |-> dict[i][2]]

RECURSIVE BuildIdToPath(_, _)
\* The loop of build_maps on id_to_path_map: vals are the nodes still to visit.
BuildIdToPath(vals, m) ==
    IF vals = <<>>
    THEN m
    ELSE BuildIdToPath(Tail(vals), DictSet(m, nodes[Head(vals)].id, nodes[Head(vals)].path))

RECURSIVE BuildPathToId_KeepsFirst(_, _)
\* BuildPathToId that leaves the entry of a path already in the map alone.
BuildPathToId_KeepsFirst(vals, m) ==
    IF vals = <<>>
    THEN m
    ELSE IF nodes[Head(vals)].path \in DOMAIN m
         THEN BuildPathToId_KeepsFirst(Tail(vals), m)
         ELSE BuildPathToId_KeepsFirst(Tail(vals),
                                       DictSet(m, nodes[Head(vals)].path, nodes[Head(vals)].id))

RECURSIVE BuildPathToId(_, _)
\* The loop of build_maps on path_to_id_map.
BuildPathToId(vals, m) ==
    IF vals = <<>>
    THEN m
    ELSE BuildPathToId(Tail(vals), DictSet(m, nodes[Head(vals)].path, nodes[Head(vals)].id))

RECURSIVE CollectPaths_ComponentsToo(_, _)
\* CollectPaths that takes the Component nodes as well.
CollectPaths_ComponentsToo(vals, res) ==
    IF vals = <<>>
    THEN res
    ELSE IF nodes[Head(vals)].node_type \in {ConfigNode, DataItemNode, ComponentNode}
         THEN CollectPaths_ComponentsToo(Tail(vals), Append(res, nodes[Head(vals)].path))
         ELSE CollectPaths_ComponentsToo(Tail(vals), res)

RECURSIVE CollectPaths(_, _)
\* The loop of get_all_config_and_data_item_path: res is the list so far.
CollectPaths(vals, res) ==
    IF vals = <<>>
    THEN res
    ELSE IF nodes[Head(vals)].node_type \in {ConfigNode, DataItemNode}
         THEN CollectPaths(Tail(vals), Append(res, nodes[Head(vals)].path))
         ELSE CollectPaths(Tail(vals), res)

-----------------------------------------------------------------------------
(* Operations *)

\* The classes that define a parent setter.
HasParentSetter(n) ==
    nodes[n].node_type \in {ConfigNode, DataItemNode, SampleChannelNode, ComponentNode}

\* n.parent = val
SetParent(n, val) ==
    /\ HasParentSetter(n)
    /\ nodes' = [nodes EXCEPT ![n].parent = val, ![n].path = ParentSetterPath(n, val)]
    /\ last' = Call("parent", n, val, "", 0, FALSE, <<>>)

\* device.type = val
SetType(d, val) ==
    /\ nodes[d].node_type = DeviceNode
    /\ nodes' = [nodes EXCEPT ![d].type = val, ![d].path = DevicePath(val)]
    /\ last' = Call("type", d, None, val, 0, FALSE, <<>>)

\* n.number = val, a plain attribute of Component and DataItem
SetNumber(n, val) ==
    /\ nodes[n].node_type \in {ComponentNode, DataItemNode}
    /\ nodes' = [nodes EXCEPT ![n].number = val]
    /\ last' = Call("number", n, None, val, 0, FALSE, <<>>)

\* s.sample_interval = v and s.upload_interval = v, plain attributes
SetSampleInterval(s, v) ==
    /\ nodes[s].node_type = SampleChannelNode
    /\ nodes' = [nodes EXCEPT ![s].sample_interval = v]
    /\ last' = Call("sample_interval", s, None, "", v, FALSE, <<>>)

SetUploadInterval(s, v) ==
    /\ nodes[s].node_type = SampleChannelNode
    /\ nodes' = [nodes EXCEPT ![s].upload_interval = v]
    /\ last' = Call("upload_interval", s, None, "", v, FALSE, <<>>)

\* n.validate(): reads only
Validate(n) ==
    /\ nodes' = nodes
    /\ last' = Call("validate", n, None, "", 0, validate(n), <<>>)

\* s.add_sample_point(sp)
add_sample_point(s, sp) ==
    /\ nodes[s].node_type = SampleChannelNode
    /\ IF nodes[sp].id \in DOMAIN nodes[s].sample_points
       THEN /\ nodes' = nodes
            /\ last' = Call("add_sample_point", s, sp, "", 0, FALSE, <<>>)
       ELSE IF ~(nodes[sp].node_type = DataItemNode \/ nodes[sp].node_type = ConfigNode)
            THEN /\ nodes' = nodes
                 /\ last' = Call("add_sample_point", s, sp, "", 0, FALSE, <<>>)
            ELSE /\ nodes' = [nodes EXCEPT ![s].sample_points = DictSet(@, nodes[sp].id, sp)]
                 /\ last' = Call("add_sample_point", s, sp, "", 0, TRUE, <<>>)

\* add_sample_point_id without the test for an id already in the list.
add_sample_point_id_Unchecked(s, id_) ==
    /\ nodes[s].node_type = SampleChannelNode
    /\ nodes' = [nodes EXCEPT ![s].ids = Append(@, id_),
                              ![s].sample_point_count = @ + 1]
    /\ last' = Call("add_sample_point_id", s, None, id_, 0, TRUE, <<>>)

\* s.add_sample_point_id(id_)
add_sample_point_id(s, id_) ==
    /\ nodes[s].node_type = SampleChannelNode
    /\ IF id_ \in Range(nodes[s].ids)
       THEN /\ nodes' = nodes
            /\ last' = Call("add_sample_point_id", s, None, id_, 0, FALSE, <<>>)
       ELSE /\ nodes' = [nodes EXCEPT ![s].ids = Append(@, id_),
                                      ![s].sample_point_count = @ + 1]
            /\ last' = Call("add_sample_point_id", s, None, id_, 0, TRUE, <<>>)

\* component.add_config_node(cn)
ComponentAddConfigNode(c, cn) ==
    /\ nodes[c].node_type = ComponentNode
    /\ IF nodes[cn].id \in DOMAIN nodes[c].config_nodes
       THEN /\ nodes' = nodes
            /\ last' = Call("add_config_node", c, cn, "", 0, FALSE, <<>>)
       ELSE /\ nodes' = [nodes EXCEPT ![c].config_nodes = DictSet(@, nodes[cn].id, cn)]
            /\ last' = Call("add_config_node", c, cn, "", 0, TRUE, <<>>)

\* component.add_data_item_node(din)
ComponentAddDataItemNode(c, din) ==
    /\ nodes[c].node_type = ComponentNode
    /\ IF nodes[din].id \in DOMAIN nodes[c].data_item_nodes
       THEN /\ nodes' = nodes
            /\ last' = Call("add_data_item_node", c, din, "", 0, FALSE, <<>>)
       ELSE /\ nodes' = [nodes EXCEPT ![c].data_item_nodes = DictSet(@, nodes[din].id, din)]
            /\ last' = Call("add_data_item_node", c, din, "", 0, TRUE, <<>>)

\* component.add_component_node(cpn)
ComponentAddComponentNode(c, cpn) ==
    /\ nodes[c].node_type = ComponentNode
    /\ IF nodes[cpn].id \in DOMAIN nodes[c].component_nodes
       THEN /\ nodes' = nodes
            /\ last' = Call("add_component_node", c, cpn, "", 0, FALSE, <<>>)
       ELSE /\ nodes' = [nodes EXCEPT ![c].component_nodes = DictSet(@, nodes[cpn].id, cpn)]
            /\ last' = Call("add_component_node", c, cpn, "", 0, TRUE, <<>>)

\* device.add_sample_channel_node(scn)
DeviceAddSampleChannelNode(d, scn) ==
    /\ nodes[d].node_type = DeviceNode
    /\ IF nodes[scn].id \in DOMAIN nodes[d].sample_channel_nodes
       THEN /\ nodes' = nodes
            /\ last' = Call("add_sample_channel_node", d, scn, "", 0, FALSE, <<>>)
       ELSE /\ nodes' = [nodes EXCEPT ![d].sample_channel_nodes = DictSet(@, nodes[scn].id, scn)]
            /\ last' = Call("add_sample_channel_node", d, scn, "", 0, TRUE, <<>>)

\* DeviceAddConfigNode that overwrites the entry of an id already present.
DeviceAddConfigNode_Overwrites(d, cn) ==
    /\ nodes[d].node_type = DeviceNode
    /\ nodes' = [nodes EXCEPT ![d].config_nodes = DictSet(@, nodes[cn].id, cn)]
    /\ last' = Call("add_config_node", d, cn, "", 0,
                    nodes[cn].id \notin DOMAIN nodes[d].config_nodes, <<>>)

\* device.add_config_node(cn)
DeviceAddConfigNode(d, cn) ==
    /\ nodes[d].node_type = DeviceNode
    /\ IF nodes[cn].id \in DOMAIN nodes[d].config_nodes
       THEN /\ nodes' = nodes
            /\ last' = Call("add_config_node", d, cn, "", 0, FALSE, <<>>)
       ELSE /\ nodes' = [nodes EXCEPT ![d].config_nodes = DictSet(@, nodes[cn].id, cn)]
            /\ last' = Call("add_config_node", d, cn, "", 0, TRUE, <<>>)

\* device.add_data_item_node(din)
DeviceAddDataItemNode(d, din) ==
    /\ nodes[d].node_type = DeviceNode
    /\ IF nodes[din].id \in DOMAIN nodes[d].data_item_nodes
       THEN /\ nodes' = nodes
            /\ last' = Call("add_data_item_node", d, din, "", 0, FALSE, <<>>)
       ELSE /\ nodes' = [nodes EXCEPT ![d].data_item_nodes = DictSet(@, nodes[din].id, din)]
            /\ last' = Call("add_data_item_node", d, din, "", 0, TRUE, <<>>)

\* device.add_component_node(cpn)
DeviceAddComponentNode(d, cpn) ==
    /\ nodes[d].node_type = DeviceNode
    /\ IF nodes[cpn].id \in DOMAIN nodes[d].component_nodes
       THEN /\ nodes' = nodes
            /\ last' = Call("add_component_node", d, cpn, "", 0, FALSE, <<>>)
       ELSE /\ nodes' = [nodes EXCEPT ![d].component_nodes = DictSet(@, nodes[cpn].id, cpn)]
            /\ last' = Call("add_component_node", d, cpn, "", 0, TRUE, <<>>)

\* The builder's device._node_dictionary[n.id] = n: the dictionary is keyed
\* by node id.
PutNode(d, n) ==
    /\ nodes[d].node_type = DeviceNode
    /\ nodes' = [nodes EXCEPT ![d].node_dictionary = OrderedDictSet(@, nodes[n].id, n)]
    /\ last' = Call("node_dictionary", d, n, nodes[n].id, 0, FALSE, <<>>)

\* device.build_maps()
build_maps(d) ==
    /\ nodes[d].node_type = DeviceNode
    /\ nodes' = [nodes EXCEPT
         ![d].id_to_path_map = BuildIdToPath(DictValues(nodes[d].node_dictionary), @),
         ![d].path_to_id_map = BuildPathToId(DictValues(nodes[d].node_dictionary), @)]
    /\ last' = Call("build_maps", d, None, "", 0, FALSE, <<>>)

\* device.get_all_config_and_data_item_path(): reads only
get_all_config_and_data_item_path(d) ==
    /\ nodes[d].node_type = DeviceNode
    /\ nodes' = nodes
    /\ last' = Call("get_all_config_and_data_item_path", d, None, "", 0, FALSE,
                    CollectPaths(DictValues(nodes[d].node_dictionary), <<>>))

------------------------------------------------------------------------

-----------------------------------------------------------------------------
(* The tree specification: two nodes of any classes are constructed, then  *)
(* parents, numbers and the Device type are assigned in any order.  A node  *)
(* is given None or the other node as its parent, never itself.            *)

\* The bound on the length of a derived path: reparenting in a cycle grows
\* the path without limit.
MaxPathLen == 38

NodeTypes == {"", "FEED_AXIS_POSITION"}
DeviceTypes == {"CNC1"}
Numbers == {"", "2"}

TypesOf(kind) == IF kind = DeviceNode THEN DeviceTypes ELSE NodeTypes

Init ==
    /\ \E k1 \in NodeKinds, k2 \in NodeKinds :
         \E t1 \in TypesOf(k1), t2 \in TypesOf(k2) :
            nodes = <<Construct(k1, "a", t1, "n", "1"), Construct(k2, "b", t2, "m", "1")>>
    /\ last = NoCall

TreeSetParent ==
    \E n \in Refs : \E val \in ({None} \cup Refs) \ {n} :
        /\ HasParentSetter(n)
        /\ Len(ParentSetterPath(n, val)) <= MaxPathLen
        /\ SetParent(n, val)

TreeSetType == \E d \in Refs, val \in DeviceTypes : SetType(d, val)

TreeSetNumber == \E n \in Refs, val \in Numbers : SetNumber(n, val)

Next == TreeSetParent \/ TreeSetType \/ TreeSetNumber

Spec == Init /\ [][Next]_vars

\* The path the derivation rule gives node n under a parent whose path is
\* ppath: ppath + "/" + type, plus "@" + number for a Component or DataItem
\* with a non-empty number.
RulePath(ppath, n) ==
    IF nodes[n].node_type \in {ComponentNode, DataItemNode} /\ nodes[n].number # ""
    THEN ppath \o "/" \o nodes[n].type \o "@" \o nodes[n].number
    ELSE ppath \o "/" \o nodes[n].type

\* C1 as stated: every step n.parent = p, p a node, leaves n.path equal to
\* the rule's path computed from p.path as it was at the assignment.
C1_AssignmentDerivesPath ==
    [][(last'.op = "parent" /\ last'.node # None)
         => nodes'[last'.self].path = RulePath(nodes[last'.node].path, last'.self)]_vars

\* C1 amended: every step n.parent = p, p a node, leaves n.parent = p and
\* n.path equal to the rule's path computed from p.path as it was at the
\* assignment, except that a Component or DataItem whose type is empty keeps
\* the path it had.
C1_AssignmentDerivesPathUnlessUntyped ==
    [][(last'.op = "parent" /\ last'.node # None)
         => LET n == last'.self
                p == last'.node
            IN /\ nodes'[n].parent = p
               /\ nodes'[n].path =
                    IF nodes[n].node_type \in {ComponentNode, DataItemNode} /\ nodes[n].type = ""
                    THEN nodes[n].path
                    ELSE RulePath(nodes[p].path, n)]_vars

\* C1 witness: a numbered Component has just been reparented from an
\* unrooted parent under a Device that has its path.
C1_Witness ==
    /\ last.op = "parent" /\ last.node # None
    /\ nodes[last.self].node_type = ComponentNode
    /\ nodes[last.node].node_type = DeviceNode
    /\ nodes[last.self].path = "NC_LINK_ROOT/CNC1/FEED_AXIS_POSITION@2"

\* C2: every node whose parent is assigned has the rule's path under its
\* parent's current path (stated for the nodes whose type is non-empty).
C2_PathRuleInvariant ==
    \A n \in Refs :
        (HasParentSetter(n) /\ nodes[n].parent # None /\ nodes[n].type # "")
            => nodes[n].path = RulePath(nodes[nodes[n].parent].path, n)

\* C3: a Device's path is "NC_LINK_ROOT/" followed by its type in every
\* state, the state right after construction included.
C3_DevicePathInvariant ==
    \A d \in Refs :
        nodes[d].node_type = DeviceNode => nodes[d].path = "NC_LINK_ROOT/" \o nodes[d].type

-----------------------------------------------------------------------------
(* The validation specification: a node p of any class with every field    *)
(* populated and a Config or DataItem n whose id, type and name are each   *)
(* empty or not are constructed; parents are assigned and validate() is    *)
(* called in any order.                                                    *)

Ids == {"", "a"}
Names == {"", "n"}

InitValidate ==
    /\ \E kp \in NodeKinds, kn \in {ConfigNode, DataItemNode} :
         \E i \in Ids, t \in NodeTypes, nm \in Names :
            nodes = <<Construct(kp, "p", IF kp = DeviceNode THEN "CNC1" ELSE "FEED_AXIS_POSITION", "m", "1"),
                      Construct(kn, i, t, nm, "")>>
    /\ last = NoCall

ValidateSetParent ==
    \E n \in Refs : \E val \in ({None} \cup Refs) \ {n} :
        /\ HasParentSetter(n)
        /\ Len(ParentSetterPath(n, val)) <= MaxPathLen
        /\ SetParent(n, val)

ValidateCall == \E n \in Refs : Validate(n)

NextValidate == ValidateSetParent \/ ValidateCall

SpecValidate == InitValidate /\ [][NextValidate]_vars

\* C6: Config.validate() returns true exactly when id, type, name and path
\* are non-empty and the parent is assigned and is a Device or a Component.
C6_ConfigValidateIff ==
    (last.op = "validate" /\ nodes[last.self].node_type = ConfigNode)
        => LET c == nodes[last.self] IN
           last.ret <=> /\ c.id # "" /\ c.type # "" /\ c.name # "" /\ c.path # ""
                        /\ c.parent # None
                        /\ nodes[c.parent].node_type \in {DeviceNode, ComponentNode}

\* C6 witness: validate() has returned false for a Config with every field
\* populated whose parent is a DataItem.
C6_Witness ==
    /\ last.op = "validate" /\ ~last.ret
    /\ LET c == nodes[last.self] IN
       /\ c.node_type = ConfigNode
       /\ c.id # "" /\ c.type # "" /\ c.name # "" /\ c.path # ""
       /\ c.parent # None
       /\ nodes[c.parent].node_type = DataItemNode

\* C7: DataItem.validate() returns true only if the parent is assigned and
\* is a Device or a Component.
C7_DataItemValidateOnlyUnderDeviceOrComponent ==
    (last.op = "validate" /\ nodes[last.self].node_type = DataItemNode /\ last.ret)
        => /\ nodes[last.self].parent # None
           /\ nodes[nodes[last.self].parent].node_type \in {DeviceNode, ComponentNode}

-----------------------------------------------------------------------------
(* The interval specification: a Device and a SampleChannel are            *)
(* constructed; the channel's parent and intervals are assigned and its    *)
(* validate() is called in any order.                                      *)

IntervalValues == {-1, 0, 1, 1000, 1001, 86400000, 86400001}

InitInterval ==
    /\ \E i \in Ids, t \in NodeTypes, nm \in Names :
         nodes = <<Construct(DeviceNode, "d", "CNC1", "m", "1"),
                   Construct(SampleChannelNode, i, t, nm, "")>>
    /\ last = NoCall

IntervalSetParent ==
    \E n \in Refs : \E val \in ({None} \cup Refs) \ {n} :
        /\ HasParentSetter(n)
        /\ Len(ParentSetterPath(n, val)) <= MaxPathLen
        /\ SetParent(n, val)

IntervalSetType == \E d \in Refs, val \in DeviceTypes : SetType(d, val)

IntervalSetSample ==
    \E s \in Refs, v \in IntervalValues :
        nodes[s].node_type = SampleChannelNode /\ SetSampleInterval(s, v)

IntervalSetUpload ==
    \E s \in Refs, v \in IntervalValues :
        nodes[s].node_type = SampleChannelNode /\ SetUploadInterval(s, v)

IntervalCall == \E n \in Refs : Validate(n)

NextInterval ==
    \/ IntervalSetParent
    \/ IntervalSetType
    \/ IntervalSetSample
    \/ IntervalSetUpload
    \/ IntervalCall

SpecInterval == InitInterval /\ [][NextInterval]_vars

\* C8: for a SampleChannel with non-empty id, type, name and path and an
\* assigned parent, validate() returns true exactly when both intervals are
\* in 1..86,400,000 and sample_interval <= upload_interval.
C8_SampleChannelValidateIff ==
    (/\ last.op = "validate"
     /\ nodes[last.self].node_type = SampleChannelNode
     /\ nodes[last.self].id # "" /\ nodes[last.self].type # ""
     /\ nodes[last.self].name # "" /\ nodes[last.self].path # ""
     /\ nodes[last.self].parent # None)
        => LET si == nodes[last.self].sample_interval
               ui == nodes[last.self].upload_interval
           IN last.ret <=> /\ 0 < si /\ si <= 86400000
                           /\ 0 < ui /\ ui <= 86400000
                           /\ si <= ui

\* C8 witness: validate() has returned true for a parented SampleChannel
\* whose two intervals are both a whole day.
C8_Witness ==
    /\ last.op = "validate" /\ last.ret
    /\ nodes[last.self].node_type = SampleChannelNode
    /\ nodes[last.self].sample_interval = 86400000
    /\ nodes[last.self].upload_interval = 86400000

-----------------------------------------------------------------------------
(* The registry specification: a Device, a Component and two more nodes of *)
(* the child classes are constructed, with ids that may coincide; the      *)
(* seven add methods are called in any order, each with a node of the      *)
(* class its parameter is annotated with.                                  *)

RegistryIds == {"a", "b"}

ChildKinds == {ConfigNode, DataItemNode, ComponentNode, SampleChannelNode}

InitRegistry ==
    /\ \E k3 \in ChildKinds, k4 \in ChildKinds :
         \E i2 \in RegistryIds, i3 \in RegistryIds, i4 \in RegistryIds :
            nodes = <<Construct(DeviceNode, "d", "CNC1", "m", "1"),
                      Construct(ComponentNode, i2, "FEED_AXIS_POSITION", "n", ""),
                      Construct(k3, i3, "FEED_AXIS_POSITION", "n", ""),
                      Construct(k4, i4, "FEED_AXIS_POSITION", "n", "")>>
    /\ last = NoCall

OfKind(kind) == {n \in Refs : nodes[n].node_type = kind}

RegistryComponentAddConfig ==
    \E c \in OfKind(ComponentNode), cn \in OfKind(ConfigNode) : ComponentAddConfigNode(c, cn)

RegistryComponentAddDataItem ==
    \E c \in OfKind(ComponentNode), din \in OfKind(DataItemNode) : ComponentAddDataItemNode(c, din)

RegistryComponentAddComponent ==
    \E c \in OfKind(ComponentNode), cpn \in OfKind(ComponentNode) : ComponentAddComponentNode(c, cpn)

RegistryDeviceAddSampleChannel ==
    \E d \in OfKind(DeviceNode), scn \in OfKind(SampleChannelNode) : DeviceAddSampleChannelNode(d, scn)

RegistryDeviceAddConfig ==
    \E d \in OfKind(DeviceNode), cn \in OfKind(ConfigNode) : DeviceAddConfigNode(d, cn)

RegistryDeviceAddDataItem ==
    \E d \in OfKind(DeviceNode), din \in OfKind(DataItemNode) : DeviceAddDataItemNode(d, din)

RegistryDeviceAddComponent ==
    \E d \in OfKind(DeviceNode), cpn \in OfKind(ComponentNode) : DeviceAddComponentNode(d, cpn)

NextRegistry ==
    \/ RegistryComponentAddConfig
    \/ RegistryComponentAddDataItem
    \/ RegistryComponentAddComponent
    \/ RegistryDeviceAddSampleChannel
    \/ RegistryDeviceAddConfig
    \/ RegistryDeviceAddDataItem
    \/ RegistryDeviceAddComponent

SpecRegistry == InitRegistry /\ [][NextRegistry]_vars

AddOps ==
    {"add_sample_channel_node", "add_config_node", "add_data_item_node", "add_component_node"}

\* The registries of the heap ns: the pairs of an owner and the add method
\* that fills one of its registries.
Registries(ns) ==
    {r \in (DOMAIN ns) \X AddOps :
        \/ ns[r[1]].node_type = DeviceNode
        \/ ns[r[1]].node_type = ComponentNode /\ r[2] # "add_sample_channel_node"}

\* The registry r in the heap ns.
Registry(ns, r) ==
    CASE r[2] = "add_sample_channel_node" -> ns[r[1]].sample_channel_nodes
      [] r[2] = "add_config_node" -> ns[r[1]].config_nodes
      [] r[2] = "add_data_item_node" -> ns[r[1]].data_item_nodes
      [] r[2] = "add_component_node" -> ns[r[1]].component_nodes

\* C5: an add call whose node's id is already a key of its registry returns
\* false and changes nothing; any other add call returns true, adds exactly
\* the entry id -> node to its registry and leaves every other registry as
\* it was, whatever ids the sibling registries hold.
C5_AddIsLocalAndRejectsDuplicates ==
    [][last'.op \in AddOps
         => LET r == <<last'.self, last'.op>>
                id == nodes[last'.node].id
            IN IF id \in DOMAIN Registry(nodes, r)
               THEN /\ last'.ret = FALSE
                    /\ nodes' = nodes
               ELSE /\ last'.ret = TRUE
                    /\ DOMAIN Registry(nodes', r) = DOMAIN Registry(nodes, r) \cup {id}
                    /\ Registry(nodes', r)[id] = last'.node
                    /\ \A k \in DOMAIN Registry(nodes, r) :
                          Registry(nodes', r)[k] = Registry(nodes, r)[k]
                    /\ \A q \in Registries(nodes) \ {r} :
                          Registry(nodes', q) = Registry(nodes, q)]_vars

\* C5 witness: an add call has been rejected for a node whose id is held in
\* the registry by another node, while a sibling registry of the same owner
\* holds that id too.
C5_Witness ==
    /\ last.op \in AddOps /\ last.ret = FALSE
    /\ Registry(nodes, <<last.self, last.op>>)[nodes[last.node].id] # last.node
    /\ \E q \in Registries(nodes) :
          /\ q[1] = last.self /\ q[2] # last.op
          /\ nodes[last.node].id \in DOMAIN Registry(nodes, q)

-----------------------------------------------------------------------------
(* The channel specification: a SampleChannel and two more nodes of any    *)
(* classes are constructed, with ids that may coincide; add_sample_point   *)
(* and add_sample_point_id are called in any order.                        *)

PointIds == {"a", "b", "c"}

InitChannel ==
    /\ \E k2 \in NodeKinds, k3 \in NodeKinds :
         \E i2 \in RegistryIds, i3 \in RegistryIds :
            nodes = <<Construct(SampleChannelNode, "s", "FEED_AXIS_POSITION", "n", ""),
                      Construct(k2, i2, "FEED_AXIS_POSITION", "n", "1"),
                      Construct(k3, i3, "FEED_AXIS_POSITION", "n", "1")>>
    /\ last = NoCall

ChannelAddPoint ==
    \E s \in OfKind(SampleChannelNode), sp \in Refs : add_sample_point(s, sp)

ChannelAddPointId ==
    \E s \in OfKind(SampleChannelNode), id_ \in PointIds : add_sample_point_id(s, id_)

NextChannel == ChannelAddPoint \/ ChannelAddPointId

SpecChannel == InitChannel /\ [][NextChannel]_vars

NoDuplicates(list) ==
    \A i \in DOMAIN list, j \in DOMAIN list : list[i] = list[j] => i = j

\* C9: in every state the ids of a SampleChannel hold no duplicate and
\* sample_point_count is their number; a step leaves ids as it was or adds
\* one id at its end; add_sample_point_id of an id already in ids returns
\* false and changes neither ids nor the count; add_sample_point changes
\* neither.
C9_IdsAppendOnlyCounted ==
    /\ [](\A s \in OfKind(SampleChannelNode) :
            /\ NoDuplicates(nodes[s].ids)
            /\ nodes[s].sample_point_count = Len(nodes[s].ids))
    /\ [][\A s \in OfKind(SampleChannelNode) :
            /\ \/ nodes'[s].ids = nodes[s].ids
               \/ /\ Len(nodes'[s].ids) = Len(nodes[s].ids) + 1
                  /\ SubSeq(nodes'[s].ids, 1, Len(nodes[s].ids)) = nodes[s].ids
            /\ (last'.op = "add_sample_point_id" /\ last'.self = s
                  /\ last'.val \in Range(nodes[s].ids))
                 => /\ last'.ret = FALSE
                    /\ nodes'[s].ids = nodes[s].ids
                    /\ nodes'[s].sample_point_count = nodes[s].sample_point_count
            /\ (last'.op = "add_sample_point_id" /\ last'.self = s
                  /\ last'.val \notin Range(nodes[s].ids))
                 => /\ last'.ret = TRUE
                    /\ nodes'[s].ids = Append(nodes[s].ids, last'.val)
            /\ last'.op = "add_sample_point"
                 => /\ nodes'[s].ids = nodes[s].ids
                    /\ nodes'[s].sample_point_count = nodes[s].sample_point_count]_vars

\* C9 witness: add_sample_point_id has been rejected on a channel that
\* holds two ids and one sample point.
C9_Witness ==
    /\ last.op = "add_sample_point_id" /\ last.ret = FALSE
    /\ Len(nodes[last.self].ids) = 2
    /\ nodes[last.self].sample_point_count = 2
    /\ Cardinality(DOMAIN nodes[last.self].sample_points) = 1

-----------------------------------------------------------------------------
(* The map specification: a Device and two nodes of the child classes are  *)
(* constructed, with ids that may coincide; parents are assigned, nodes    *)
(* are put into the Device's node dictionary, and then build_maps and      *)
(* get_all_config_and_data_item_path are called: the tree is assembled     *)
(* before the first of these calls and left alone after it.                *)

InitMaps ==
    /\ \E k2 \in ChildKinds, k3 \in ChildKinds :
         \E i2 \in RegistryIds, i3 \in RegistryIds :
            nodes = <<Construct(DeviceNode, "d", "CNC1", "m", "1"),
                      Construct(k2, i2, "FEED_AXIS_POSITION", "n", ""),
                      Construct(k3, i3, "FEED_AXIS_POSITION", "n", "")>>
    /\ last = NoCall

\* The assembly phase lasts until build_maps or the path query is called.
Assembling == last.op \notin {"build_maps", "get_all_config_and_data_item_path"}

MapsSetParent ==
    \E n \in Refs : \E val \in ({None} \cup Refs) \ {n} :
        /\ Assembling
        /\ HasParentSetter(n)
        /\ Len(ParentSetterPath(n, val)) <= MaxPathLen
        /\ SetParent(n, val)

MapsSetType ==
    \E d \in OfKind(DeviceNode), val \in DeviceTypes : Assembling /\ SetType(d, val)

MapsPutNode ==
    \E d \in OfKind(DeviceNode), n \in Refs : Assembling /\ PutNode(d, n)

MapsBuild == \E d \in OfKind(DeviceNode) : build_maps(d)

MapsGetAll == \E d \in OfKind(DeviceNode) : get_all_config_and_data_item_path(d)

NextMaps == MapsSetParent \/ MapsSetType \/ MapsPutNode \/ MapsBuild \/ MapsGetAll

SpecMaps == InitMaps /\ [][NextMaps]_vars

\* The nodes of the dictionary of Device d in iteration order.
DictNodes(d) == DictValues(nodes[d].node_dictionary)

\* C4 as stated, on the dictionary nodes whose parent is assigned: right
\* after build_maps() each of them is found under its id in id_to_path_map
\* with its path, and under its path in path_to_id_map with its id.
C4_BuildMapsRoundTrip ==
    last.op = "build_maps"
        => LET d == last.self IN
           \A i \in DOMAIN DictNodes(d) :
              LET x == nodes[DictNodes(d)[i]] IN
              x.parent # None
                => /\ x.id \in DOMAIN nodes[d].id_to_path_map
                   /\ nodes[d].id_to_path_map[x.id] = x.path
                   /\ x.path \in DOMAIN nodes[d].path_to_id_map
                   /\ nodes[d].path_to_id_map[x.path] = x.id

\* C4 amended: right after build_maps() a dictionary node is found under its
\* id with its path unless a node later in the iteration has the same id
\* and another path, and under its path with its id unless a node later in
\* the iteration has the same path and another id.
C4_BuildMapsLastWins ==
    last.op = "build_maps"
        => LET d == last.self
               v == DictNodes(d)
           IN \A i \in DOMAIN v :
                 /\ (\A j \in DOMAIN v :
                        (j > i /\ nodes[v[j]].id = nodes[v[i]].id)
                            => nodes[v[j]].path = nodes[v[i]].path)
                      => /\ nodes[v[i]].id \in DOMAIN nodes[d].id_to_path_map
                         /\ nodes[d].id_to_path_map[nodes[v[i]].id] = nodes[v[i]].path
                 /\ (\A j \in DOMAIN v :
                        (j > i /\ nodes[v[j]].path = nodes[v[i]].path)
                            => nodes[v[j]].id = nodes[v[i]].id)
                      => /\ nodes[v[i]].path \in DOMAIN nodes[d].path_to_id_map
                         /\ nodes[d].path_to_id_map[nodes[v[i]].path] = nodes[v[i]].id

\* C4 witness: build_maps() has run over a dictionary of two parented nodes
\* with different ids and the same path under the Device, and
\* path_to_id_map holds the id of the second.
C4_Witness ==
    /\ last.op = "build_maps"
    /\ LET d == last.self
           v == DictNodes(d)
       IN /\ Len(v) = 2
          /\ nodes[v[1]].id # nodes[v[2]].id
          /\ nodes[v[1]].path = "NC_LINK_ROOT/CNC1/FEED_AXIS_POSITION"
          /\ nodes[v[2]].path = "NC_LINK_ROOT/CNC1/FEED_AXIS_POSITION"
          /\ nodes[d].path_to_id_map[nodes[v[1]].path] = nodes[v[2]].id
          /\ nodes[d].id_to_path_map[nodes[v[1]].id] = nodes[v[1]].path

IsConfigOrDataItem(n) == nodes[n].node_type \in {ConfigNode, DataItemNode}

\* The place in the returned list of the i-th dictionary node: the number
\* of Config and DataItem nodes among the first i.
Rank(v, i) == Cardinality({j \in 1..i : IsConfigOrDataItem(v[j])})

\* The returned list holds exactly the paths of the Config and DataItem
\* nodes of the dictionary, in iteration order.
ExactlyConfigAndDataItemPaths(v, out) ==
    /\ Len(out) = Rank(v, Len(v))
    /\ \A i \in DOMAIN v : IsConfigOrDataItem(v[i]) => out[Rank(v, i)] = nodes[v[i]].path

\* C10 as stated, on the dictionaries whose Config and DataItem nodes all
\* have a parent assigned: the returned list holds exactly the paths of the
\* Config and DataItem nodes in iteration order, and no path twice when the
\* ids of the dictionary's nodes are pairwise distinct.
C10_PathsExactAndDistinctByIds ==
    last.op = "get_all_config_and_data_item_path"
        => LET v == DictNodes(last.self) IN
           /\ ExactlyConfigAndDataItemPaths(v, last.out)
           /\ (/\ \A i \in DOMAIN v : IsConfigOrDataItem(v[i]) => nodes[v[i]].parent # None
               /\ \A i \in DOMAIN v, j \in DOMAIN v :
                     nodes[v[i]].id = nodes[v[j]].id => i = j)
                => NoDuplicates(last.out)

\* C10 amended: the returned list holds exactly the paths of the Config and
\* DataItem nodes in iteration order, and no path twice when the paths of
\* those nodes are pairwise distinct.
C10_PathsExactAndDistinctByPaths ==
    last.op = "get_all_config_and_data_item_path"
        => LET v == DictNodes(last.self) IN
           /\ ExactlyConfigAndDataItemPaths(v, last.out)
           /\ (\A i \in DOMAIN v, j \in DOMAIN v :
                  (/\ IsConfigOrDataItem(v[i]) /\ IsConfigOrDataItem(v[j])
                   /\ nodes[v[i]].path = nodes[v[j]].path) => i = j)
                => NoDuplicates(last.out)

\* C10 witness: the query has run over a dictionary holding a parented
\* Component and then a parented DataItem, and has returned the DataItem's
\* path alone.
C10_Witness ==
    /\ last.op = "get_all_config_and_data_item_path"
    /\ LET v == DictNodes(last.self) IN
       /\ Len(v) = 2
       /\ nodes[v[1]].node_type = ComponentNode /\ nodes[v[1]].path # ""
       /\ nodes[v[2]].node_type = DataItemNode /\ nodes[v[2]].path # ""
       /\ nodes[v[1]].path # nodes[v[2]].path
       /\ last.out = <<nodes[v[2]].path>>

====
